---- MODULE Spec2Model ----
(***************************************************************************)
(* Model of woke's IR layer for contracts and Yul switches:                *)
(*   src/woke/ast/ir/declaration/contract_definition.py                    *)
(*   src/woke/ast/ir/yul/switch.py                                         *)
(* together with the reference resolver they talk to (its code is not part *)
(* of the two files; it is modelled from the design document, section 4.3).*)
(*                                                                         *)
(* Spec       the resolver life cycle of one compilation unit: files are   *)
(*            constructed, post-processed, invalidated and rebuilt.        *)
(* SpecReplay Spec plus a driver that executes drained destroy callbacks   *)
(*            a second time.                                               *)
(* SpecNodes  construction and iteration of one ContractDefinition or one  *)
(*            Switch from its raw AST node, and the contract's declarations*)
(* SpecName   the name locator of one contract declaration, run on the     *)
(*            bytes of the declaration.                                    *)
(***************************************************************************)
EXTENDS Integers, Sequences, FiniteSets, TLC

\* ----------------------------------------------------------------- bounds
NumContracts == 3
MaxInvalidations == 2
MaxMembers == 3
MaxSpecifiers == 1
MaxCases == 2
MaxNameLen == 2
MaxOffset == 40

Files == {"A.sol", "B.sol"}
\* the file that declares contract 1
FirstFile == "A.sol"
Ids == 1..NumContracts
\* the absent node: no contract has id 0
None == [id |-> 0, gen |-> 0]
\* no graph recorded yet
NoGraph == <<>>

VARIABLES
    \* the raw AST of the compilation unit (input, fixed after Init)
    fileOf,              \* AST id -> file that declares the contract
    baseIds,             \* AST id -> ids referenced by its inheritance specifiers
    \* driver position
    fileState,           \* file -> "unbuilt" | "built" | "invalidated"
    gen,                 \* file -> how many times the file has been rebuilt
    \* reference resolver
    nodes_by_id,         \* AST id -> live ContractDefinition or None
    post_process_queue,  \* sequence of contracts whose __post_process is queued
    destroy_queue,       \* file -> sequence of partial(__destroy, base_contracts)
    \* ContractDefinition objects
    child_contracts,     \* object -> its __child_contracts set
    error,               \* "none" or the exception that aborted the session
    \* history
    drained,             \* destroy callbacks that have been executed
    order,               \* files in the order of their first construction
    graphG,              \* child ids per id when the first post-process ended
    absentHit            \* a destroy callback met an entry already absent

VARIABLES
    \* construction of one node from its raw AST node
    raw,                 \* the raw node: a SolcContractDefinition or a YulSwitch
    pc,                  \* "raw" | "constructed" | "failed" | "iterated" | "listed"
    irNodes,             \* IR nodes created so far, in creation order
    fields,              \* the private lists of the constructed node
    ctorError,           \* "none" or the exception __init__ raised
    registered,          \* post-process callbacks registered by __init__
    declOut,             \* what list(contract.declarations) returned
    iterOut              \* what the last iteration yielded

nodeVars == <<raw, pc, irNodes, fields, ctorError, registered, iterOut, declOut>>

VARIABLES
    \* the name locator of one contract declaration
    self_kind,           \* self.kind
    source,              \* self._source: the bytes of the declaration
    byte_location,       \* self.byte_location: <<start, end>> in the file
    located              \* "none" before the call, then its outcome

nameVars == <<self_kind, source, byte_location, located>>

lifeVars == <<fileOf, baseIds, fileState, gen, nodes_by_id, post_process_queue,
              destroy_queue, child_contracts, error, drained, order, graphG,
              absentHit>>

\* ---------------------------------------------------------------- helpers
Range(s) == {s[k] : k \in DOMAIN s}

NoDup(s) == \A i, j \in DOMAIN s : i # j => s[i] # s[j]

SeqsUpTo(S, n) == UNION {[1..k -> S] : k \in 0..n}

\* A ContractDefinition object: the declaration `id` as built in the
\* `g`-th construction of its file (a rebuilt file yields fresh objects).
Obj(id, g) == [id |-> id, gen |-> g]

RECURSIVE Anc(_, _, _)
Anc(b, c, n) ==
    IF n = 0 THEN {}
    ELSE b[c] \cup UNION {Anc(b, x, n - 1) : x \in b[c]}

Acyclic(b) == \A c \in Ids : c \notin Anc(b, c, NumContracts)

\* Sequence of the elements of the set S of integers in ascending order.
RECURSIVE Ascending(_)
Ascending(S) ==
    IF S = {} THEN <<>>
    ELSE LET m == CHOOSE x \in S : \A y \in S : x <= y
         IN <<m>> \o Ascending(S \ {m})

IdsOfFile(f) == {i \in Ids : fileOf[i] = f}

\* ------------------------------------------------ input: the compiler's AST
\* The `is` clauses of a unit: each contract names a set of other contracts
\* (no contract twice, as the compiler rejects that), without cycles.
Inheritances == {b \in [Ids -> SUBSET Ids] : Acyclic(b)}

\* s without the earlier occurrences of repeated elements.
RECURSIVE KeepLast(_)
KeepLast(s) ==
    IF s = <<>> THEN <<>>
    ELSE IF Head(s) \in Range(Tail(s)) THEN KeepLast(Tail(s))
    ELSE <<Head(s)>> \o KeepLast(Tail(s))

\* contract.linearized_base_contracts as the compiler emits it: the
\* contract's own id first, then its ancestors, most derived first.
RECURSIVE SolcLinearized(_)
RECURSIVE SolcLinearizedBases(_, _)
SolcLinearizedBases(c, k) ==
    IF k = 0 THEN <<>>
    ELSE SolcLinearized(baseIds[c][k]) \o SolcLinearizedBases(c, k - 1)
SolcLinearized(c) ==
    <<c>> \o KeepLast(SolcLinearizedBases(c, Len(baseIds[c])))

\* ------------------------------------------------------ reference resolver
\* resolve(id, unit): the live node registered under id, None when the id
\* is not bound (the caller then fails with a dangling reference).
ResolveNode(id) == nodes_by_id[id]

\* InheritanceSpecifier.base_name.referenced_declaration
ReferencedDeclaration(id) == ResolveNode(id)

\* --------------------------------------------------- ContractDefinition
\* contract.__child_contracts.add(self), and what a wrong write would do
AddChildOverwrite(set, self) == {self}
AddChild(set, self) == set \cup {self}

\* base_contract.__child_contracts.remove(self): raises KeyError when
\* self is absent (set.discard would not)
RemoveRaisesNever(set, self) == FALSE
RemoveRaises(set, self) == self \notin set

RemoveChildNothing(set, self) == set
RemoveChild(set, self) == set \ {self}

\* The state the constructor and the callbacks work on: child sets, the
\* two callback queues, the pending exception, and whether a removal met an
\* absent entry.
CbState == [child |-> child_contracts, dq |-> destroy_queue, err |-> error,
            absent |-> absentHit, ppq |-> post_process_queue]


\* __post_process: for each specifier in order resolve the base, add self
\* to its child set, collect it; then register the destroy callback for
\* self.file bound to the collected list.  An exception leaves the
\* additions made so far and registers nothing.
RECURSIVE PostProcessLoop(_, _, _, _)
PostProcessLoop(self, k, base_contracts, st) ==
    IF k > Len(baseIds[self.id])
    THEN [st EXCEPT !.dq[fileOf[self.id]] =
             Append(@, [self |-> self, base_contracts |-> base_contracts])]
    ELSE LET contract == ReferencedDeclaration(baseIds[self.id][k])
         IN IF contract = None
            THEN [st EXCEPT !.err = "DanglingReference"]
            ELSE PostProcessLoop(self, k + 1, Append(base_contracts, contract),
                     [st EXCEPT !.child[contract] = AddChild(@, self)])

PostProcess(self, st) == PostProcessLoop(self, 1, <<>>, st)

\* ContractDefinition.__init__ as the resolver sees it: the child set starts
\* empty and the last statement queues self.__post_process; nothing is
\* resolved.  (The variants queue the callback twice, or resolve the bases
\* at once instead of queueing.)
ConstructQueuesTwice(self, st) ==
    [st EXCEPT !.child = (self :> {}) @@ @, !.ppq = @ \o <<self, self>>]
ConstructResolves(self, st) ==
    PostProcess(self, [st EXCEPT !.child = (self :> {}) @@ @])
Construct(self, st) ==
    [st EXCEPT !.child = (self :> {}) @@ @, !.ppq = Append(@, self)]

RECURSIVE ConstructAll(_, _)
ConstructAll(new, st) ==
    IF new = <<>> \/ st.err # "none" THEN st
    ELSE ConstructAll(Tail(new), Construct(Head(new), st))

\* __destroy(base_contracts): remove self from each base's child set in
\* order; the first absent entry raises and ends the callback.
RECURSIVE DestroyLoop(_, _, _)
DestroyLoop(cb, k, st) ==
    IF k > Len(cb.base_contracts) THEN st
    ELSE LET base == cb.base_contracts[k]
             seen == [st EXCEPT !.absent = @ \/ (cb.self \notin st.child[base])]
         IN IF RemoveRaises(st.child[base], cb.self)
            THEN [seen EXCEPT !.err = "KeyError"]
            ELSE DestroyLoop(cb, k + 1,
                     [seen EXCEPT !.child[base] = RemoveChild(@, cb.self)])

DestroyTwice(cb, st) == DestroyLoop(cb, 1, DestroyLoop(cb, 1, st))
Destroy(cb, st) == DestroyLoop(cb, 1, st)

\* run the queued post-process callbacks in registration order; an
\* exception propagates and ends the run
RECURSIVE RunCallbacks(_, _)
RunCallbacks(q, st) ==
    IF q = <<>> \/ st.err # "none" THEN st
    ELSE RunCallbacks(Tail(q), PostProcess(Head(q), st))

\* run a file's destroy callbacks in registration order
RECURSIVE RunDestroy(_, _)
RunDestroy(q, st) ==
    IF q = <<>> \/ st.err # "none" THEN st
    ELSE RunDestroy(Tail(q), Destroy(Head(q), st))

\* child ids per declaration id, read off the generation-0 objects
ChildIdsOf(child, o) == {x.id : x \in child[o]}

\* ------------------------------------------------- IR nodes and their trees
\* An IR node is its index in irNodes; irNodes[n] holds its kind and its
\* parent (0: the parent is outside the constructed tree).
Root == 1

MemberRawKinds ==
    {"SolcEnumDefinition", "SolcErrorDefinition", "SolcEventDefinition",
     "SolcFunctionDefinition", "SolcModifierDefinition", "SolcStructDefinition",
     "SolcUserDefinedValueTypeDefinition", "SolcUsingForDirective",
     "SolcVariableDeclaration"}
DocRawKinds == {"None", "SolcStructuredDocumentation", "str"}
ExprRawKinds == {"YulFunctionCall", "YulIdentifier", "YulLiteral"}
Unknown == "Unknown"

\* The children a child node's own constructor builds, by kind: an enum
\* owns its values, a struct its members, a function its parameters, an
\* inheritance specifier its base name, a case its body, a call its callee.
OwnedKinds(kind) ==
    CASE kind = "EnumDefinition" -> <<"EnumValue", "EnumValue">>
      [] kind = "StructDefinition" -> <<"VariableDeclaration">>
      [] kind = "FunctionDefinition" -> <<"VariableDeclaration">>
      [] kind = "InheritanceSpecifier" -> <<"IdentifierPath">>
      [] kind = "Case" -> <<"Block">>
      [] kind = "FunctionCall" -> <<"Identifier">>
      [] OTHER -> <<>>

\* Constructing a child of `kind` under `parent`: the node, then the
\* children it owns, top-down.  Returns the extended node list.
RECURSIVE BuildNode(_, _, _)
RECURSIVE BuildOwned(_, _, _)
BuildOwned(kinds, parent, nodes) ==
    IF kinds = <<>> THEN nodes
    ELSE BuildOwned(Tail(kinds), parent, BuildNode(Head(kinds), parent, nodes))
BuildNode(kind, parent, nodes) ==
    BuildOwned(OwnedKinds(kind), Len(nodes) + 1,
               Append(nodes, [kind |-> kind, parent |-> parent]))

ChildrenOf(nodes, n) == {m \in DOMAIN nodes : nodes[m].parent = n}

\* iteration of a child node: itself, then each owned child's subtree
RECURSIVE IterNode(_, _)
RECURSIVE IterAll(_, _)
IterAll(nodes, list) ==
    IF list = <<>> THEN <<>>
    ELSE IterNode(nodes, Head(list)) \o IterAll(nodes, Tail(list))
IterNode(nodes, n) == <<n>> \o IterAll(nodes, Ascending(ChildrenOf(nodes, n)))

NoFields ==
    [documentation |-> 0, base_contracts |-> <<>>, enums |-> <<>>,
     errors |-> <<>>, events |-> <<>>, functions |-> <<>>, modifiers |-> <<>>,
     structs |-> <<>>, user_defined_value_types |-> <<>>,
     using_for_directives |-> <<>>, declared_variables |-> <<>>,
     expression |-> 0, cases |-> <<>>]

\* self.__<list>.append(<Kind>(init, node, self)); the variant puts the
\* new child at the head of the list
InsertChildFirst(st, list, kind) ==
    [nodes |-> BuildNode(kind, Root, st.nodes),
     fields |-> [st.fields EXCEPT ![list] = <<Len(st.nodes) + 1>> \o @],
     err |-> st.err]
AppendChild(st, list, kind) ==
    [nodes |-> BuildNode(kind, Root, st.nodes),
     fields |-> [st.fields EXCEPT ![list] = Append(@, Len(st.nodes) + 1)],
     err |-> st.err]

\* ContractDefinition.__init__, the documentation: None, a structured
\* documentation node, a plain string (kept as the marker -1), or TypeError
InitDocumentation(doc, st) ==
    CASE doc = "None" -> st
      [] doc = "SolcStructuredDocumentation" ->
            [nodes |-> BuildNode("StructuredDocumentation", Root, st.nodes),
             fields |-> [st.fields EXCEPT !.documentation = Len(st.nodes) + 1],
             err |-> st.err]
      [] doc = "str" -> [st EXCEPT !.fields.documentation = -1]
      [] OTHER -> [st EXCEPT !.err = "TypeError"]

\* ContractDefinition.__init__, the inheritance specifiers
RECURSIVE InitBaseContracts(_, _)
InitBaseContracts(n, st) ==
    IF n = 0 THEN st
    ELSE InitBaseContracts(n - 1,
             AppendChild(st, "base_contracts", "InheritanceSpecifier"))

\* ContractDefinition.__init__, one raw member: the isinstance chain.  A
\* raw node of none of the nine kinds falls through every branch.
InitMember(node, st) ==
    CASE node = "SolcEnumDefinition" -> AppendChild(st, "enums", "EnumDefinition")
      [] node = "SolcErrorDefinition" -> AppendChild(st, "errors", "ErrorDefinition")
      [] node = "SolcEventDefinition" -> AppendChild(st, "events", "EventDefinition")
      [] node = "SolcFunctionDefinition" ->
            AppendChild(st, "functions", "FunctionDefinition")
      [] node = "SolcModifierDefinition" ->
            AppendChild(st, "modifiers", "ModifierDefinition")
      [] node = "SolcStructDefinition" ->
            AppendChild(st, "structs", "StructDefinition")
      [] node = "SolcUserDefinedValueTypeDefinition" ->
            AppendChild(st, "user_defined_value_types",
                        "UserDefinedValueTypeDefinition")
      [] node = "SolcUsingForDirective" ->
            AppendChild(st, "using_for_directives", "UsingForDirective")
      [] node = "SolcVariableDeclaration" ->
            AppendChild(st, "declared_variables", "VariableDeclaration")
      [] OTHER -> st

RECURSIVE InitMembers(_, _)
InitMembers(nodes, st) ==
    IF nodes = <<>> THEN st
    ELSE InitMembers(Tail(nodes), InitMember(Head(nodes), st))

\* ContractDefinition.__init__ as a whole; an exception ends it where it
\* is raised.
ContractInit(contract) ==
    LET self == [nodes |-> <<[kind |-> "ContractDefinition", parent |-> 0]>>,
                 fields |-> NoFields, err |-> "none"]
        doc == InitDocumentation(contract.documentation, self)
    IN IF doc.err # "none" THEN doc
       ELSE InitMembers(contract.nodes,
                        InitBaseContracts(contract.base_contracts, doc))

\* ContractDefinition.__iter__
ContractIterNoModifiers(nodes, f) ==
    <<Root>> \o IterAll(nodes, f.base_contracts)
        \o (IF f.documentation > 0 THEN IterNode(nodes, f.documentation) ELSE <<>>)
        \o IterAll(nodes, f.enums) \o IterAll(nodes, f.errors)
        \o IterAll(nodes, f.events) \o IterAll(nodes, f.functions)
        \o IterAll(nodes, f.structs)
        \o IterAll(nodes, f.user_defined_value_types)
        \o IterAll(nodes, f.using_for_directives)
        \o IterAll(nodes, f.declared_variables)
ContractIter(nodes, f) ==
    <<Root>> \o IterAll(nodes, f.base_contracts)
        \o (IF f.documentation > 0 THEN IterNode(nodes, f.documentation) ELSE <<>>)
        \o IterAll(nodes, f.enums) \o IterAll(nodes, f.errors)
        \o IterAll(nodes, f.events) \o IterAll(nodes, f.functions)
        \o IterAll(nodes, f.modifiers) \o IterAll(nodes, f.structs)
        \o IterAll(nodes, f.user_defined_value_types)
        \o IterAll(nodes, f.using_for_directives)
        \o IterAll(nodes, f.declared_variables)

\* enum.values: the values an enum owns, in order
EnumValues(nodes, enum) == Ascending(ChildrenOf(nodes, enum))
RECURSIVE AllEnumValues(_, _)
AllEnumValues(nodes, enums) ==
    IF enums = <<>> THEN <<>>
    ELSE EnumValues(nodes, Head(enums)) \o AllEnumValues(nodes, Tail(enums))

\* ContractDefinition.declarations
DeclarationsNoValues(nodes, f) ==
    f.enums \o f.errors \o f.events
        \o f.functions \o f.modifiers \o f.structs
        \o f.user_defined_value_types \o f.declared_variables
Declarations(nodes, f) ==
    f.enums \o AllEnumValues(nodes, f.enums) \o f.errors \o f.events
        \o f.functions \o f.modifiers \o f.structs
        \o f.user_defined_value_types \o f.declared_variables

\* Switch.__init__: the scrutinee by its raw kind (anything else fails
\* the assertion), then one Case per raw case
RECURSIVE InitCases(_, _)
InitCases(n, st) ==
    IF n = 0 THEN st ELSE InitCases(n - 1, AppendChild(st, "cases", "Case"))

InitExpression(kind, st) ==
    [nodes |-> BuildNode(kind, Root, st.nodes),
     fields |-> [st.fields EXCEPT !.expression = Len(st.nodes) + 1],
     err |-> st.err]

SwitchInit(switch) ==
    LET self == [nodes |-> <<[kind |-> "Switch", parent |-> 0]>>,
                 fields |-> NoFields, err |-> "none"]
        expr == CASE switch.expression = "YulFunctionCall" ->
                        InitExpression("FunctionCall", self)
                  [] switch.expression = "YulIdentifier" ->
                        InitExpression("Identifier", self)
                  [] switch.expression = "YulLiteral" ->
                        InitExpression("Literal", self)
                  [] OTHER -> [self EXCEPT !.err = "AssertionError"]
    IN IF expr.err # "none" THEN expr ELSE InitCases(switch.cases, expr)

\* Switch.__iter__
SwitchIter(nodes, f) ==
    <<Root>> \o IterNode(nodes, f.expression) \o IterAll(nodes, f.cases)

\* the raw nodes construction is tried on
RawContracts ==
    [type : {"SolcContractDefinition"},
     documentation : DocRawKinds \cup {Unknown},
     base_contracts : 0..MaxSpecifiers,
     nodes : SeqsUpTo(MemberRawKinds \cup {Unknown}, MaxMembers),
     expression : {"None"}, cases : {0}]
RawSwitches ==
    [type : {"YulSwitch"}, documentation : {"None"}, base_contracts : {0},
     nodes : {<<>>}, expression : ExprRawKinds \cup {Unknown},
     cases : 0..MaxCases]

IdleNodes ==
    /\ raw = [type |-> "None", documentation |-> "None", base_contracts |-> 0,
              nodes |-> <<>>, expression |-> "None", cases |-> 0]
    /\ pc = "idle"
    /\ irNodes = <<>>
    /\ fields = NoFields
    /\ ctorError = "none"
    /\ registered = 0
    /\ iterOut = <<>>
    /\ declOut = <<>>

\* ------------------------------------------------------- name locator
\* Bytes are one-character strings.  The classes of the patterns:
\* \s, [a-zA-Z$_] and [a-zA-Z0-9$_].
LowerCase == {"a", "b", "c", "d", "e", "f", "g", "h", "i", "j", "k", "l", "m",
              "n", "o", "p", "q", "r", "s", "t", "u", "v", "w", "x", "y", "z"}
UpperCase == {"A", "B", "C", "D", "E", "F", "G", "H", "I", "J", "K", "L", "M",
              "N", "O", "P", "Q", "R", "S", "T", "U", "V", "W", "X", "Y", "Z"}
Digits == {"0", "1", "2", "3", "4", "5", "6", "7", "8", "9"}
IsSpace(c) == c \in {" ", "\t", "\n", "\r"}
IsIdentifierStart(c) == c \in LowerCase \cup UpperCase \cup {"$", "_"}
IsIdentifierPart(c) == IsIdentifierStart(c) \/ c \in Digits

KwAbstract == <<"a", "b", "s", "t", "r", "a", "c", "t">>
KwContract == <<"c", "o", "n", "t", "r", "a", "c", "t">>
KwInterface == <<"i", "n", "t", "e", "r", "f", "a", "c", "e">>
KwLibrary == <<"l", "i", "b", "r", "a", "r", "y">>

\* Positions are 1-based: i is the next byte to read; 0 is "no match".
\* \s* and the identifier tail are greedy.
RECURSIVE SkipSpace(_, _)
SkipSpace(s, i) ==
    IF i <= Len(s) /\ IsSpace(s[i]) THEN SkipSpace(s, i + 1) ELSE i

RECURSIVE SkipIdentifier(_, _)
SkipIdentifier(s, i) ==
    IF i <= Len(s) /\ IsIdentifierPart(s[i]) THEN SkipIdentifier(s, i + 1) ELSE i

MatchLiteral(s, i, lit) ==
    IF i + Len(lit) - 1 <= Len(s) /\ SubSeq(s, i, i + Len(lit) - 1) = lit
    THEN i + Len(lit) ELSE 0

NoMatch == [matched |-> FALSE, start |-> 0, end |-> 0]

\* \s*<keyword>\s+(?P<name>IDENTIFIER) from position i; start and end are
\* the 0-based offsets match.start("name") and match.end("name")
MatchKeywordName(s, i, keyword) ==
    LET k == MatchLiteral(s, SkipSpace(s, i), keyword)
    IN IF k = 0 \/ k > Len(s) \/ ~IsSpace(s[k]) THEN NoMatch
       ELSE LET n == SkipSpace(s, k)
            IN IF n > Len(s) \/ ~IsIdentifierStart(s[n]) THEN NoMatch
               ELSE [matched |-> TRUE, start |-> n - 1,
                     end |-> SkipIdentifier(s, n + 1) - 1]

\* CONTRACT_RE.match: ^\s*(abstract\s)?\s*contract\s+(?P<name>...); the
\* optional group is tried first and given up if the rest does not match
ContractReMatch(s) ==
    LET i == SkipSpace(s, 1)
        a == MatchLiteral(s, i, KwAbstract)
        with == IF a # 0 /\ a <= Len(s) /\ IsSpace(s[a])
                THEN MatchKeywordName(s, a + 1, KwContract) ELSE NoMatch
    IN IF with.matched THEN with ELSE MatchKeywordName(s, i, KwContract)

\* INTERFACE_RE.match and LIBRARY_RE.match
InterfaceReMatch(s) == MatchKeywordName(s, 1, KwInterface)
LibraryReMatch(s) == MatchKeywordName(s, 1, KwLibrary)

\* the span from the match: byte_location[0] + match.start / match.end
SpanRelative(loc, m) == <<m.start, m.end>>
Span(loc, m) == <<loc[1] + m.start, loc[1] + m.end>>

\* _parse_name_location: the pattern is chosen by self.kind; another kind
\* raises ValueError; no match fails the assertion
SelectAlwaysContract(k, s) == [err |-> "none", match |-> ContractReMatch(s)]
SelectMatch(k, s) ==
    CASE k = "contract" -> [err |-> "none", match |-> ContractReMatch(s)]
      [] k = "interface" -> [err |-> "none", match |-> InterfaceReMatch(s)]
      [] k = "library" -> [err |-> "none", match |-> LibraryReMatch(s)]
      [] OTHER -> [err |-> "ValueError", match |-> NoMatch]

ParseNameLocation(k, s, loc) ==
    LET sel == SelectMatch(k, s)
    IN IF sel.err # "none" THEN [err |-> sel.err, span |-> <<0, 0>>]
       ELSE IF ~sel.match.matched
       THEN [err |-> "AssertionError", span |-> <<0, 0>>]
       ELSE [err |-> "none", span |-> Span(loc, sel.match)]

\* Declarations the locator is tried on: what precedes the keyword, an
\* `abstract` with or without its blank, blanks, a keyword (or none), the
\* separator, a name over a few bytes, and what follows.
RECURSIVE Concat(_)
Concat(parts) == IF parts = <<>> THEN <<>> ELSE Head(parts) \o Concat(Tail(parts))

Leads == {<<>>, <<" ">>, <<"\n", " ">>, <<"{">>}
Abstracts == {<<>>, KwAbstract \o <<" ">>, KwAbstract}
Keywords == {<<>>, KwContract, KwInterface, KwLibrary}
Separators == {<<>>, <<" ">>, <<" ", "\n">>}
Names == SeqsUpTo({"A", "1", "$"}, MaxNameLen)
Tails == {<<>>, <<" ", "{">>}
Sources ==
    {Concat(<<l, a, k, p, n, t>>) :
        l \in Leads, a \in Abstracts, k \in Keywords, p \in Separators,
        n \in Names, t \in Tails}
Kinds == {"contract", "interface", "library", "other"}

NotLocated == [err |-> "pending", span |-> <<0, 0>>]

IdleName ==
    /\ self_kind = "none"
    /\ source = <<>>
    /\ byte_location = <<0, 0>>
    /\ located = NotLocated

\* ------------------------------------------------------------- life cycle
InitUnit ==
    /\ fileOf \in {fo \in [Ids -> Files] : fo[1] = FirstFile}
    /\ \E b \in Inheritances : baseIds = [c \in Ids |-> Ascending(b[c])]

IdleLife ==
    /\ fileOf = [i \in Ids |-> FirstFile]
    /\ baseIds = [i \in Ids |-> <<>>]

LifeStart ==
    /\ fileState = [f \in Files |-> "unbuilt"]
    /\ gen = [f \in Files |-> 0]
    /\ nodes_by_id = [i \in Ids |-> None]
    /\ post_process_queue = <<>>
    /\ destroy_queue = [f \in Files |-> <<>>]
    /\ child_contracts = <<>>
    /\ error = "none"
    /\ drained = <<>>
    /\ order = <<>>
    /\ graphG = NoGraph
    /\ absentHit = FALSE

InitLife == InitUnit /\ LifeStart /\ IdleNodes /\ IdleName

\* how many times the files of S have been invalidated so far
RECURSIVE Invalidations(_)
Invalidations(S) ==
    IF S = {} THEN 0
    ELSE LET f == CHOOSE x \in S : TRUE
         IN gen[f] + (IF fileState[f] = "invalidated" THEN 1 ELSE 0)
                + Invalidations(S \ {f})

\* The g-th construction of file f: ContractDefinition.__init__ for each
\* contract of the file in source order.  Each gets an empty child set, is
\* registered under its id and queues its __post_process.
NewObjects(f, g) == [k \in 1..Cardinality(IdsOfFile(f)) |->
                        Obj(Ascending(IdsOfFile(f))[k], g)]

ConstructFile(f) ==
    /\ error = "none"
    /\ fileState[f] \in {"unbuilt", "invalidated"}
    /\ LET g == IF fileState[f] = "unbuilt" THEN 0 ELSE gen[f] + 1
           st == ConstructAll(NewObjects(f, g), CbState)
       IN /\ gen' = [gen EXCEPT ![f] = g]
          /\ child_contracts' = st.child
          /\ nodes_by_id' = [i \in Ids |-> IF fileOf[i] = f THEN Obj(i, g)
                                           ELSE nodes_by_id[i]]
          /\ post_process_queue' = st.ppq
          /\ destroy_queue' = st.dq
          /\ error' = st.err
    /\ order' = IF fileState[f] = "unbuilt" THEN Append(order, f) ELSE order
    /\ fileState' = [fileState EXCEPT ![f] = "built"]
    /\ UNCHANGED <<nodeVars, nameVars>>
    /\ UNCHANGED <<fileOf, baseIds, drained, graphG, absentHit>>

\* run_post_process(): starts only after every file of the unit has been
\* constructed; executes the queued callbacks in order and empties the
\* queue, leaving what the callbacks queued meanwhile.  An exception leaves
\* the run at once.
RunPostProcess ==
    /\ error = "none"
    /\ \A f \in Files : fileState[f] # "unbuilt"
    /\ post_process_queue # <<>>
    /\ LET st == RunCallbacks(post_process_queue, [CbState EXCEPT !.ppq = <<>>])
       IN /\ child_contracts' = st.child
          /\ destroy_queue' = st.dq
          /\ error' = st.err
          /\ post_process_queue' =
                 IF st.err = "none" THEN st.ppq ELSE post_process_queue
          /\ graphG' = IF graphG = NoGraph /\ st.err = "none"
                       THEN [i \in Ids |-> ChildIdsOf(st.child, Obj(i, 0))]
                       ELSE graphG
    /\ UNCHANGED <<nodeVars, nameVars>>
    /\ UNCHANGED <<fileOf, baseIds, fileState, gen, nodes_by_id, drained,
                   order, absentHit>>

\* invalidate(file): executes the file's destroy callbacks in order and
\* empties its queue, then discards the file's id bindings.  An exception
\* leaves invalidate at once.  Runs between analysis cycles only.
Invalidate(f) ==
    /\ error = "none"
    /\ fileState[f] = "built"
    /\ Invalidations(Files) < MaxInvalidations
    /\ post_process_queue = <<>>
    /\ LET st == RunDestroy(destroy_queue[f], CbState)
           ok == st.err = "none"
       IN /\ child_contracts' = st.child
          /\ error' = st.err
          /\ absentHit' = st.absent
          /\ drained' = IF ok THEN drained \o destroy_queue[f] ELSE drained
          /\ destroy_queue' =
                 IF ok THEN [destroy_queue EXCEPT ![f] = <<>>] ELSE destroy_queue
          /\ nodes_by_id' =
                 IF ok THEN [i \in Ids |-> IF fileOf[i] = f THEN None
                                           ELSE nodes_by_id[i]]
                 ELSE nodes_by_id
          /\ fileState' =
                 IF ok THEN [fileState EXCEPT ![f] = "invalidated"] ELSE fileState
    /\ UNCHANGED <<nodeVars, nameVars>>
    /\ UNCHANGED <<fileOf, baseIds, gen, post_process_queue, order, graphG>>

\* A driver that runs a destroy callback it has already drained and
\* executed once.
ReplayDestroy(k) ==
    /\ error = "none"
    /\ k \in DOMAIN drained
    /\ LET st == Destroy(drained[k], CbState)
       IN /\ child_contracts' = st.child
          /\ error' = st.err
          /\ absentHit' = st.absent
    /\ UNCHANGED <<nodeVars, nameVars>>
    /\ UNCHANGED <<fileOf, baseIds, fileState, gen, nodes_by_id,
                   post_process_queue, destroy_queue, drained, order, graphG>>

\* ContractDefinition.linearized_base_contracts: resolves the stored id
\* list element by element on every access; a failed resolution raises.
RECURSIVE LinearizedLoop(_, _)
LinearizedLoop(ids, base_contracts) ==
    IF ids = <<>> THEN [err |-> "none", value |-> base_contracts]
    ELSE LET node == ResolveNode(Head(ids))
         IN IF node = None
            THEN [err |-> "DanglingReference", value |-> <<>>]
            ELSE LinearizedLoop(Tail(ids), Append(base_contracts, node))

\* (the variant leaves out the ids that no longer resolve)
LinearizedSkipUnbound(self) ==
    LET ids == SolcLinearized(self.id)
    IN [err |-> "none",
        value |-> SelectSeq([k \in DOMAIN ids |-> ResolveNode(ids[k])],
                            LAMBDA node : node # None)]

LinearizedSkipSelf(self) == LinearizedLoop(Tail(SolcLinearized(self.id)), <<>>)
LinearizedBaseContracts(self) == LinearizedLoop(SolcLinearized(self.id), <<>>)

\* ContractDefinition.child_contracts: frozenset(self.__child_contracts), a
\* fresh immutable value that shares nothing with the private set.  (The
\* variant hands out the private set itself.)
ChildContractsPrivateSet(child, self) == [owner |-> self, elems |-> child[self]]
ChildContracts(child, self) == [owner |-> None, elems |-> child[self]]

\* snapshot.add(x) by a client: a frozenset has no such method, so nothing
\* changes; on the private set it would add x
ClientAdd(child, snapshot, x) ==
    IF snapshot.owner = None THEN child
    ELSE [child EXCEPT ![snapshot.owner] = @ \cup {x}]

\* a client reads a contract's child_contracts and tries to add the
\* contract itself to what it got
ReadChildContracts(self) ==
    /\ error = "none"
    /\ self \in DOMAIN child_contracts
    /\ child_contracts' =
           ClientAdd(child_contracts, ChildContracts(child_contracts, self), self)
    /\ UNCHANGED <<nodeVars, nameVars>>
    /\ UNCHANGED <<fileOf, baseIds, fileState, gen, nodes_by_id,
                   post_process_queue, destroy_queue, error, drained, order,
                   graphG, absentHit>>

NextLife ==
    \/ \E f \in Files : ConstructFile(f)
    \/ RunPostProcess
    \/ \E f \in Files : Invalidate(f)
    \/ \E i \in Ids : ReadChildContracts(nodes_by_id[i])

\* ------------------------------------------------- construction, iteration
InitNodes ==
    /\ IdleLife /\ LifeStart /\ IdleName
    /\ raw \in RawContracts \cup RawSwitches
    /\ pc = "raw"
    /\ irNodes = <<>>
    /\ fields = NoFields
    /\ ctorError = "none"
    /\ registered = 0
    /\ iterOut = <<>>
    /\ declOut = <<>>

\* ContractDefinition(init, contract, parent); the last statement of
\* __init__ registers the post-process callback
ConstructContract ==
    /\ pc = "raw" /\ raw.type = "SolcContractDefinition"
    /\ LET st == ContractInit(raw)
       IN /\ irNodes' = st.nodes
          /\ fields' = st.fields
          /\ ctorError' = st.err
          /\ registered' = IF st.err = "none" THEN registered + 1 ELSE registered
          /\ pc' = IF st.err = "none" THEN "constructed" ELSE "failed"
    /\ UNCHANGED <<lifeVars, nameVars>>
    /\ UNCHANGED <<raw, iterOut, declOut>>

\* Switch(init, switch, parent)
ConstructSwitch ==
    /\ pc = "raw" /\ raw.type = "YulSwitch"
    /\ LET st == SwitchInit(raw)
       IN /\ irNodes' = st.nodes
          /\ fields' = st.fields
          /\ ctorError' = st.err
          /\ pc' = IF st.err = "none" THEN "constructed" ELSE "failed"
    /\ UNCHANGED <<lifeVars, nameVars>>
    /\ UNCHANGED <<raw, registered, iterOut, declOut>>

\* list(iter(contract))
IterateContract ==
    /\ pc = "constructed" /\ raw.type = "SolcContractDefinition"
    /\ iterOut' = ContractIter(irNodes, fields)
    /\ pc' = "iterated"
    /\ UNCHANGED <<lifeVars, nameVars>>
    /\ UNCHANGED <<raw, irNodes, fields, ctorError, registered, declOut>>

\* list(iter(switch))
IterateSwitch ==
    /\ pc = "constructed" /\ raw.type = "YulSwitch"
    /\ iterOut' = SwitchIter(irNodes, fields)
    /\ pc' = "iterated"
    /\ UNCHANGED <<lifeVars, nameVars>>
    /\ UNCHANGED <<raw, irNodes, fields, ctorError, registered, declOut>>

\* list(contract.declarations)
ListDeclarations ==
    /\ pc = "constructed" /\ raw.type = "SolcContractDefinition"
    /\ declOut' = Declarations(irNodes, fields)
    /\ pc' = "listed"
    /\ UNCHANGED <<lifeVars, nameVars>>
    /\ UNCHANGED <<raw, irNodes, fields, ctorError, registered, iterOut>>

NextNodes ==
    \/ ConstructContract
    \/ ConstructSwitch
    \/ IterateContract
    \/ IterateSwitch
    \/ ListDeclarations

\* --------------------------------------------------------- name location
InitName ==
    /\ IdleLife /\ LifeStart /\ IdleNodes
    /\ self_kind \in Kinds
    /\ source \in Sources
    /\ \E start \in {0, MaxOffset} : byte_location = <<start, start + Len(source)>>
    /\ located = NotLocated

\* self._parse_name_location()
LocateName ==
    /\ located = NotLocated
    /\ located' = ParseNameLocation(self_kind, source, byte_location)
    /\ UNCHANGED <<lifeVars, nodeVars>>
    /\ UNCHANGED <<self_kind, source, byte_location>>

NextName == LocateName

vars == <<lifeVars, nodeVars, nameVars>>

Init == InitLife
Next == NextLife
Spec == Init /\ [][Next]_vars

NextReplay ==
    \/ \E f \in Files : ConstructFile(f)
    \/ RunPostProcess
    \/ \E f \in Files : Invalidate(f)
    \/ \E i \in Ids : ReadChildContracts(nodes_by_id[i])
    \/ \E k \in DOMAIN drained : ReplayDestroy(k)
SpecReplay == Init /\ [][NextReplay]_vars

SpecNodes == InitNodes /\ [][NextNodes]_vars

SpecName == InitName /\ [][NextName]_vars

\* ------------------------------------------------------------ vocabulary
LiveObjs == {nodes_by_id[i] : i \in Ids} \ {None}
AllBuilt == \A f \in Files : fileState[f] = "built"
NeverInvalidated == \A f \in Files : fileState[f] = "built" /\ gen[f] = 0
NoRebuild == \A f \in Files : gen[f] = 0
\* the first run_post_process has ended and no callback is pending
Settled == error = "none" /\ post_process_queue = <<>> /\ graphG # NoGraph
\* every destroy callback registered so far, executed or still queued
Callbacks == Range(drained) \cup UNION {Range(destroy_queue[f]) : f \in Files}
Destroyed(o) == nodes_by_id[o.id] # o
InheritsFrom(c, b) ==
    \E k \in DOMAIN baseIds[c.id] : ReferencedDeclaration(baseIds[c.id][k]) = b
OnlyChild(x, y) == \A z \in Ids : x \in Range(baseIds[z]) => z = y
CrossFilePairs ==
    {p \in Ids \X Ids : p[1] \in Range(baseIds[p[2]]) /\ fileOf[p[1]] # fileOf[p[2]]}

\* ------------------------------------------------------------------ C1
\* C1: once the first run_post_process of a fully constructed unit has run
\* every callback, for all contracts B and C: C has an inheritance specifier
\* whose base resolves to B exactly when C is in B.child_contracts.
C1_Bidirectional ==
    (Settled /\ NeverInvalidated) =>
        \A b \in LiveObjs, c \in LiveObjs :
            InheritsFrom(c, b) <=> c \in child_contracts[b]

C1_Witness ==
    /\ Settled /\ NeverInvalidated
    /\ \E b \in LiveObjs :
          /\ Cardinality(child_contracts[b]) = 2
          /\ \E c \in child_contracts[b], d \in child_contracts[b] :
                fileOf[c.id] # fileOf[d.id]
          /\ \E c \in child_contracts[b] : child_contracts[c] # {}

\* ------------------------------------------------------------------ C2
\* C2: after run_post_process and through invalidations, for every contract
\* C and every base B its specifiers resolved to: C is in B.child_contracts
\* exactly when C has not been destroyed.
C2_ChildIffNotDestroyed ==
    Settled =>
        \A cb \in Callbacks : \A k \in DOMAIN cb.base_contracts :
            cb.self \in child_contracts[cb.base_contracts[k]]
                <=> ~Destroyed(cb.self)

C2_Witness ==
    /\ Settled /\ NoRebuild
    /\ \E cb \in Range(drained), live \in Callbacks \ Range(drained) :
          /\ cb.base_contracts # <<>>
          /\ live.base_contracts # <<>>
          /\ cb.base_contracts[1] = live.base_contracts[1]
          /\ ~Destroyed(cb.base_contracts[1])

\* ------------------------------------------------------------------ C3
OneFileRebuilt(F) ==
    /\ Settled /\ AllBuilt
    /\ gen[F] = 1 /\ \A f \in Files \ {F} : gen[f] = 0

\* C3: after any single file F is invalidated, rebuilt and post-processed,
\* the graph equals the graph G of the first build up to the fresh
\* identities of F's contracts: every contract's child_contracts holds the
\* live contracts whose ids were its children in G.
C3_InvalidationSymmetry ==
    \A F \in Files : OneFileRebuilt(F) =>
        \A i \in Ids :
            child_contracts[nodes_by_id[i]] = {nodes_by_id[j] : j \in graphG[i]}

\* ------------------------------------------------------------------ C4
RebuiltOnce(FA, FB) ==
    /\ Settled
    /\ fileState[FA] = "built" /\ gen[FA] = 0
    /\ fileState[FB] = "built" /\ gen[FB] = 1
InvalidatedOnce(FA, FB) ==
    /\ Settled
    /\ fileState[FA] = "built" /\ gen[FA] = 0
    /\ fileState[FB] = "invalidated" /\ gen[FB] = 0

\* C4 as stated: with Y in FB inheriting from X in another file FA, after
\* FB is invalidated, rebuilt and post-processed, X.child_contracts is
\* exactly the set holding the new Y.
C4_AsStated ==
    \A p \in CrossFilePairs :
        RebuiltOnce(fileOf[p[1]], fileOf[p[2]]) =>
            child_contracts[Obj(p[1], 0)] = {Obj(p[2], 1)}

\* C4 amended: after the first post-process X.child_contracts contains Y;
\* after invalidate(FB) it does not (and is empty if Y is X's only child);
\* after FB is rebuilt and post-processed it contains the new Y and not the
\* old one, and is exactly the set holding the new Y if Y is X's only child.
C4_RebuildRestores ==
    \A p \in CrossFilePairs :
        LET X == Obj(p[1], 0)
            Y == Obj(p[2], 0)
            newY == Obj(p[2], 1)
            FA == fileOf[p[1]]
            FB == fileOf[p[2]]
        IN /\ (Settled /\ NeverInvalidated) => Y \in child_contracts[X]
           /\ InvalidatedOnce(FA, FB) =>
                 /\ Y \notin child_contracts[X]
                 /\ OnlyChild(p[1], p[2]) => child_contracts[X] = {}
           /\ RebuiltOnce(FA, FB) =>
                 /\ newY \in child_contracts[X]
                 /\ Y \notin child_contracts[X]
                 /\ OnlyChild(p[1], p[2]) => child_contracts[X] = {newY}

C4_Witness ==
    \E p \in CrossFilePairs :
        /\ RebuiltOnce(fileOf[p[1]], fileOf[p[2]])
        /\ OnlyChild(p[1], p[2])
        /\ child_contracts[Obj(p[1], 0)] = {Obj(p[2], 1)}

\* ------------------------------------------------------------------ C5
\* the callbacks of the first build run in ascending id order
CanonicalQueue == [k \in 1..NumContracts |-> Obj(k, 0)]
CanonicalRun ==
    RunCallbacks(CanonicalQueue,
                 [child |-> [o \in Range(CanonicalQueue) |-> {}],
                  dq |-> [f \in Files |-> <<>>],
                  err |-> "none", absent |-> FALSE, ppq |-> <<>>])
\* the first run_post_process has returned or raised
FirstRunEnded ==
    NeverInvalidated /\ (error # "none" \/ post_process_queue = <<>>)

\* C5: whatever the order in which the files were constructed, the first
\* run_post_process ends without a resolution failure and leaves every
\* contract the child set that the callbacks give in ascending id order.
C5_OrderIndependent ==
    FirstRunEnded =>
        /\ error = "none"
        /\ child_contracts = CanonicalRun.child

C5_Witness ==
    /\ FirstRunEnded /\ Settled
    /\ order[1] # FirstFile
    /\ \E p \in CrossFilePairs : fileOf[p[2]] = order[1]
    /\ \E p \in CrossFilePairs : fileOf[p[1]] = order[1]

\* ------------------------------------------------------------------ C6
\* C6: when every file is constructed once, run_post_process runs once and
\* files are invalidated at most once, no destroy callback fails: every
\* removal finds the contract in the targeted base's child set.
C6_DestroyNeverFails ==
    NoRebuild => (error # "KeyError" /\ ~absentHit)

\* a contract with a base in its own file and a base in the other file,
\* destroyed after that other file was invalidated
C6_Witness ==
    /\ NoRebuild /\ error = "none"
    /\ \E i \in DOMAIN drained, j \in DOMAIN drained :
          /\ i < j
          /\ Len(drained[j].base_contracts) >= 2
          /\ drained[i].self \in Range(drained[j].base_contracts)
          /\ \E b \in Range(drained[j].base_contracts) :
                fileOf[b.id] = fileOf[drained[j].self.id]

\* ------------------------------------------------------------------ C7
\* C7: a destroy callback that meets a base whose child set no longer
\* holds the contract ends in an error that reaches the caller; it is
\* never a silent no-op.
C7_AbsentEntryIsFatal == absentHit => error = "KeyError"

C7_Witness == absentHit /\ error = "KeyError"

\* ------------------------------------------------------------------ C9
\* C9: with the unit constructed and post-processed, for every contract C
\* linearized_base_contracts resolves C's linearized id list element by
\* element, same order and length, and its first element is C itself.
C9_Linearized ==
    (Settled /\ AllBuilt) =>
        \A c \in LiveObjs :
            LET r == LinearizedBaseContracts(c)
                ids == SolcLinearized(c.id)
            IN /\ r.err = "none"
               /\ Len(r.value) = Len(ids)
               /\ \A k \in DOMAIN ids : r.value[k] = nodes_by_id[ids[k]]
               /\ r.value[1] = c

\* `B {}` in one file and `C is B {}` in the other: (C, B)
C9_Witness ==
    /\ Settled /\ AllBuilt
    /\ \E b \in LiveObjs, c \in LiveObjs :
          /\ baseIds[b.id] = <<>> /\ baseIds[c.id] = <<b.id>>
          /\ fileOf[b.id] # fileOf[c.id]
          /\ LinearizedBaseContracts(c).value = <<c, b>>

\* ------------------------------------------------------------------ C8
\* whether m lies in the subtree of n, following the parent links
RECURSIVE InSubtree(_, _, _)
InSubtree(nodes, n, m) ==
    IF m = 0 THEN FALSE
    ELSE m = n \/ InSubtree(nodes, n, nodes[m].parent)
Subtree(nodes, n) == {m \in DOMAIN nodes : InSubtree(nodes, n, m)}
Pos(seq, n) == CHOOSE k \in DOMAIN seq : seq[k] = n

\* the order in which a contract yields its kinds of children
KindRank(kind) ==
    CASE kind = "InheritanceSpecifier" -> 1
      [] kind = "StructuredDocumentation" -> 2
      [] kind = "EnumDefinition" -> 3
      [] kind = "ErrorDefinition" -> 4
      [] kind = "EventDefinition" -> 5
      [] kind = "FunctionDefinition" -> 6
      [] kind = "ModifierDefinition" -> 7
      [] kind = "StructDefinition" -> 8
      [] kind = "UserDefinedValueTypeDefinition" -> 9
      [] kind = "UsingForDirective" -> 10
      [] kind = "VariableDeclaration" -> 11
      [] OTHER -> 0
YieldedBefore(a, b) ==
    \/ KindRank(irNodes[a].kind) < KindRank(irNodes[b].kind)
    \/ KindRank(irNodes[a].kind) = KindRank(irNodes[b].kind) /\ a < b

\* C8: iterating a ContractDefinition or a Switch yields the node itself
\* first, then every node of its owned subtree exactly once, each owned
\* child's whole subtree before the next child's; a contract's children
\* come by kind (specifiers, documentation, enums, ..., declared variables)
\* and in list order within a kind, a switch's scrutinee before its cases.
C8_Traversal ==
    pc = "iterated" =>
        /\ iterOut[1] = Root
        /\ NoDup(iterOut)
        /\ Range(iterOut) = DOMAIN irNodes
        /\ \A n \in DOMAIN irNodes :
              {Pos(iterOut, m) : m \in Subtree(irNodes, n)} =
                  Pos(iterOut, n)..(Pos(iterOut, n) + Cardinality(Subtree(irNodes, n)) - 1)
        /\ \A a \in ChildrenOf(irNodes, Root), b \in ChildrenOf(irNodes, Root) :
              YieldedBefore(a, b) => Pos(iterOut, a) < Pos(iterOut, b)

\* a documented contract with a base whose members are declared against
\* the order of iteration
C8_Witness ==
    /\ pc = "iterated"
    /\ raw.documentation = "SolcStructuredDocumentation"
    /\ raw.base_contracts = 1
    /\ raw.nodes = <<"SolcVariableDeclaration", "SolcModifierDefinition",
                     "SolcEnumDefinition">>
    /\ Len(iterOut) = 9

\* ------------------------------------------------------------------ C10
HasUnknown ==
    \/ raw.documentation = Unknown
    \/ Unknown \in Range(raw.nodes)
    \/ raw.expression = Unknown

\* C10: construction from a raw node holding an unrecognized member, an
\* unknown documentation type or an unknown scrutinee ends in an error.
C10_NoSilentSkip ==
    (pc # "raw" /\ HasUnknown) => ctorError # "none"

\* ---------------------------------------------------------------- C11
\* What "the bytes start at i with the keyword of the kind followed by an
\* identifier" says, stated on the bytes and not by running the matcher.
AllSpace(s, i, j) == \A x \in i..j : IsSpace(s[x])
LiteralAt(s, i, lit) ==
    i + Len(lit) - 1 <= Len(s) /\ SubSeq(s, i, i + Len(lit) - 1) = lit
KeywordThenName(s, i, keyword) ==
    /\ LiteralAt(s, i, keyword)
    /\ \E n \in (i + Len(keyword) + 1)..Len(s) :
          AllSpace(s, i + Len(keyword), n - 1) /\ IsIdentifierStart(s[n])
StartsAt(k, s, i) ==
    CASE k = "contract" ->
            \/ KeywordThenName(s, i, KwContract)
            \/ /\ LiteralAt(s, i, KwAbstract)
               /\ \E m \in (i + Len(KwAbstract) + 1)..Len(s) :
                     /\ AllSpace(s, i + Len(KwAbstract), m - 1)
                     /\ KeywordThenName(s, m, KwContract)
      [] k = "interface" -> KeywordThenName(s, i, KwInterface)
      [] k = "library" -> KeywordThenName(s, i, KwLibrary)
      [] OTHER -> FALSE
StartsAfterBlanks(k, s) ==
    \E i \in 1..Len(s) : AllSpace(s, 1, i - 1) /\ StartsAt(k, s, i)

\* C11 as stated: whenever the bytes of the declaration do not start with
\* the keyword of its own kind followed by an identifier, locating the name
\* fails and returns no span.  Leading blanks before the keyword refute it.
C11_AsStated ==
    (located # NotLocated /\ ~StartsAt(self_kind, source, 1))
        => located.err # "none"

\* C11: the pattern is chosen by the kind alone; whenever the bytes of the
\* declaration do not start, after optional leading blanks, with the keyword
\* of its own kind followed by an identifier, locating the name fails with
\* an error and returns no span; a kind outside the three raises an error.
C11_NameSpanNotFound ==
    located # NotLocated =>
        /\ ~StartsAfterBlanks(self_kind, source) =>
              located.err \in {"AssertionError", "ValueError"}
        /\ self_kind \notin {"contract", "interface", "library"} =>
              located.err = "ValueError"
        /\ located.err # "none" => located.span = <<0, 0>>

\* a declaration that starts as a contract does, located as an interface
C11_Witness ==
    /\ located.err = "AssertionError"
    /\ self_kind = "interface"
    /\ StartsAt("contract", source, 1)

\* ---------------------------------------------------------------- C12
\* C12: when the bytes match the pattern of the kind, the span (s, e) is
\* absolute: start <= s < e <= end of the declaration, and the bytes from
\* s to e are the identifier that follows the keyword, whole.
C12_SpanInside ==
    located.err = "none" =>
        LET start == byte_location[1]
            s == located.span[1]
            e == located.span[2]
        IN /\ start <= s /\ s < e /\ e <= byte_location[2]
           /\ s - start >= 1 /\ IsSpace(source[s - start])
           /\ IsIdentifierStart(source[s - start + 1])
           /\ \A x \in (s - start + 1)..(e - start) : IsIdentifierPart(source[x])
           /\ e - start < Len(source) => ~IsIdentifierPart(source[e - start + 1])

\* an abstract contract deep in its file, with bytes after the name
C12_Witness ==
    /\ located.err = "none"
    /\ byte_location[1] = MaxOffset
    /\ LiteralAt(source, 1, KwAbstract)
    /\ located.span[2] - located.span[1] = MaxNameLen
    /\ located.span[2] < byte_location[2]

\* ---------------------------------------------------------------- C13
\* the kinds of node that are named declarations
DeclarationKinds ==
    {"EnumDefinition", "EnumValue", "ErrorDefinition", "EventDefinition",
     "FunctionDefinition", "ModifierDefinition", "StructDefinition",
     "UserDefinedValueTypeDefinition", "VariableDeclaration"}
OwnedDeclarations ==
    {n \in Subtree(irNodes, Root) \ {Root} : irNodes[n].kind \in DeclarationKinds}
DirectDeclarations ==
    {n \in ChildrenOf(irNodes, Root) : irNodes[n].kind \in DeclarationKinds}
ValuesOfEnums ==
    {n \in DOMAIN irNodes :
        /\ irNodes[n].kind = "EnumValue"
        /\ irNodes[n].parent \in Range(fields.enums)}

\* C13 as stated: `declarations` yields every named declaration owned
\* transitively by the contract, struct members and function parameters
\* included, each exactly once.
C13_AsStated ==
    pc = "listed" => NoDup(declOut) /\ Range(declOut) = OwnedDeclarations

\* C13: `declarations` yields, each exactly once, the contract's enums, every
\* value of every enum, its errors, events, functions, modifiers, structs,
\* user-defined value types and declared variables, and nothing owned deeper:
\* no struct member, no function parameter.
C13_Declarations ==
    pc = "listed" =>
        /\ NoDup(declOut)
        /\ Range(declOut) = DirectDeclarations \cup ValuesOfEnums
        /\ \A n \in OwnedDeclarations \ Range(declOut) :
              irNodes[irNodes[n].parent].kind \in
                  {"StructDefinition", "FunctionDefinition"}

\* a contract with an enum, a struct and a using-for directive
C13_Witness ==
    /\ pc = "listed"
    /\ raw.nodes = <<"SolcStructDefinition", "SolcUsingForDirective",
                     "SolcEnumDefinition">>
    /\ Len(declOut) = 4

\* ---------------------------------------------------------------- C14
\* some contract's base is declared in a file constructed after its own
BaseBuiltLater ==
    \E p \in CrossFilePairs :
        \E i \in DOMAIN order, j \in DOMAIN order :
            i < j /\ order[i] = fileOf[p[2]] /\ order[j] = fileOf[p[1]]

\* C14: while every file of the unit is constructed, no base resolution in
\* a post-process callback has failed with a dangling reference, whatever
\* the order the files were constructed in; and until run_post_process has
\* run nothing has been resolved: every child set is empty and no destroy
\* callback is registered.
C14_Barrier ==
    /\ AllBuilt => error # "DanglingReference"
    /\ (graphG = NoGraph /\ error = "none") =>
          /\ \A o \in DOMAIN child_contracts : child_contracts[o] = {}
          /\ Callbacks = {}

\* the derived contract's file was constructed before its base's file, and
\* the callbacks have linked the two
C14_Witness ==
    /\ Settled /\ NeverInvalidated /\ BaseBuiltLater
    /\ \E p \in CrossFilePairs : Obj(p[2], 0) \in child_contracts[Obj(p[1], 0)]

\* ---------------------------------------------------------------- C15
\* every object constructed so far
Constructed == DOMAIN child_contracts
\* the destroy callbacks still queued, each with its file and position
QueuedDestroy == UNION {{f} \X DOMAIN destroy_queue[f] : f \in Files}
\* how many destroy callbacks o has registered, executed ones included
DestroyCount(o) ==
    Cardinality({k \in DOMAIN drained : drained[k].self = o})
        + Cardinality({p \in QueuedDestroy : destroy_queue[p[1]][p[2]].self = o})
\* the callback is bound to the bases the specifiers of its contract name
BoundToBases(cb) ==
    /\ Len(cb.base_contracts) = Len(baseIds[cb.self.id])
    /\ \A k \in DOMAIN cb.base_contracts :
          /\ cb.base_contracts[k].id = baseIds[cb.self.id][k]
          /\ cb.base_contracts[k] \in Constructed
OneCallbackEach ==
    /\ NoDup(post_process_queue)
    /\ Range(post_process_queue) \subseteq Constructed
    /\ error = "none" =>
          \A o \in Constructed :
              DestroyCount(o) = IF o \in Range(post_process_queue) THEN 0 ELSE 1
    /\ \A p \in QueuedDestroy :
          /\ p[1] = fileOf[destroy_queue[p[1]][p[2]].self.id]
          /\ BoundToBases(destroy_queue[p[1]][p[2]])
QueuedOnlyByConstruction ==
    \A o \in Range(post_process_queue') \ Range(post_process_queue) :
        /\ o \notin Constructed
        /\ fileState[fileOf[o.id]] # "built" /\ fileState'[fileOf[o.id]] = "built"

PostProcessRan ==
    /\ post_process_queue # <<>> /\ fileState' = fileState
    /\ post_process_queue' = <<>> \/ error' # error
DestroyRan == \E f \in Files : fileState[f] = "built" /\ fileState'[f] # "built"
ConstructionRan == \E f \in Files : fileState[f] # "built" /\ fileState'[f] = "built"

ChildSetContained ==
    /\ Constructed \subseteq DOMAIN child_contracts'
    /\ \A o \in DOMAIN child_contracts' \ Constructed :
          ConstructionRan /\ child_contracts'[o] = {}
    /\ \A o \in Constructed :
          child_contracts'[o] # child_contracts[o] =>
              \/ /\ PostProcessRan
                 /\ child_contracts[o] \subseteq child_contracts'[o]
                 /\ \A c \in child_contracts'[o] \ child_contracts[o] :
                       /\ c \in Range(post_process_queue)
                       /\ o.id \in Range(baseIds[c.id])
              \/ /\ DestroyRan
                 /\ child_contracts'[o] \subseteq child_contracts[o]
                 /\ \A c \in child_contracts[o] \ child_contracts'[o] :
                       fileState'[fileOf[c.id]] = "invalidated"

\* C16: a child set is empty when its contract is constructed and changes
\* afterwards only in a post-process callback, by additions of contracts
\* whose specifiers name the contract, or in a destroy callback, by
\* removals; constructing other contracts and reading child_contracts, even
\* trying to change what it returned, leave every child set as it was.
C16_ChildSetContainment == [][ChildSetContained]_vars

\* a child set that has grown in a post-process callback and shrunk in a
\* destroy callback, next to a freshly constructed contract
C16_Witness ==
    /\ error = "none" /\ post_process_queue # <<>>
    /\ \E k \in DOMAIN drained :
          /\ drained[k].base_contracts # <<>>
          /\ child_contracts[drained[k].base_contracts[1]] # {}

\* ---------------------------------------------------------------- C17
\* the step is a completed invalidate(F)
Invalidated(F) == fileState[F] = "built" /\ fileState'[F] = "invalidated"
ObjectsOf(F) == {o \in Constructed : fileOf[o.id] = F}

FrameOfInvalidate ==
    \A F \in Files : Invalidated(F) =>
        \A b \in Constructed \ ObjectsOf(F) :
            /\ child_contracts'[b] = child_contracts[b] \ ObjectsOf(F)
            /\ \A c \in Constructed \ ObjectsOf(F) :
                  c \in child_contracts'[b] <=> c \in child_contracts[b]

\* the state kept for the other files names no contract of F
NoTraceOf(F) ==
    /\ \A b \in Constructed \ ObjectsOf(F) : child_contracts'[b] \cap ObjectsOf(F) = {}
    /\ \A f \in Files \ {F} : \A k \in DOMAIN destroy_queue'[f] :
          Range(destroy_queue'[f][k].base_contracts) \cap ObjectsOf(F) = {}

LinearizedFiles(c) == {fileOf[i] : i \in Range(SolcLinearized(c.id))}

\* an access whose linearization reaches into a file that is invalidated
\* and not rebuilt raises; no sequence, stale or shortened, is returned
FailsOnInvalidated ==
    \A c \in LiveObjs :
        (\E f \in LinearizedFiles(c) : fileState[f] = "invalidated") =>
            LinearizedBaseContracts(c) =
                [err |-> "DanglingReference", value |-> <<>>]

\* what an access returns is what the ids resolve to at the time of the
\* access, element by element: nothing is kept from an earlier access
ResolvedOnAccess ==
    \A c \in LiveObjs :
        LET r == LinearizedBaseContracts(c)
            ids == SolcLinearized(c.id)
        IN r.err = "none" =>
              r.value = [k \in DOMAIN ids |-> nodes_by_id[ids[k]]]

\* while no invalidate runs, the ids of a linearization that resolves keep
\* resolving, and to the same contracts, so a second access returns the
\* same: a binding changes without an invalidate only under linearizations
\* that do not resolve
BindingsKept ==
    \A i \in Ids : (nodes_by_id'[i] # nodes_by_id[i] /\ ~DestroyRan) =>
        \A c \in LiveObjs :
            i \in Range(SolcLinearized(c.id)) =>
                LinearizedBaseContracts(c).err # "none"

\* C18: linearized_base_contracts resolves the stored id list on every
\* access: accesses with no invalidation in between return equal sequences,
\* and an access made while the file of one of the contract's ancestors is
\* invalidated and not rebuilt fails with the dangling-reference error.
C18_NoStaleLinearization ==
    [](FailsOnInvalidated /\ ResolvedOnAccess) /\ [][BindingsKept]_vars

\* a contract of a built file whose second ancestor's file is invalidated
C18_Witness ==
    \E c \in LiveObjs :
        /\ Settled
        /\ fileState[fileOf[c.id]] = "built"
        /\ Len(SolcLinearized(c.id)) = 3
        /\ fileState[fileOf[SolcLinearized(c.id)[3]]] = "invalidated"
        /\ fileOf[SolcLinearized(c.id)[2]] = fileOf[c.id]
        /\ LinearizedBaseContracts(c).err = "DanglingReference"

\* ---------------------------------------------------------------- C19
\* the IR kind a raw member is built as, and the list it is appended to
IrKindOf(node) ==
    CASE node = "SolcEnumDefinition" -> "EnumDefinition"
      [] node = "SolcErrorDefinition" -> "ErrorDefinition"
      [] node = "SolcEventDefinition" -> "EventDefinition"
      [] node = "SolcFunctionDefinition" -> "FunctionDefinition"
      [] node = "SolcModifierDefinition" -> "ModifierDefinition"
      [] node = "SolcStructDefinition" -> "StructDefinition"
      [] node = "SolcUserDefinedValueTypeDefinition" ->
            "UserDefinedValueTypeDefinition"
      [] node = "SolcUsingForDirective" -> "UsingForDirective"
      [] node = "SolcVariableDeclaration" -> "VariableDeclaration"
      [] OTHER -> Unknown
ListOfKind ==
    [EnumDefinition |-> "enums", ErrorDefinition |-> "errors",
     EventDefinition |-> "events", FunctionDefinition |-> "functions",
     ModifierDefinition |-> "modifiers", StructDefinition |-> "structs",
     UserDefinedValueTypeDefinition |-> "user_defined_value_types",
     UsingForDirective |-> "using_for_directives",
     VariableDeclaration |-> "declared_variables",
     InheritanceSpecifier |-> "base_contracts", Case |-> "cases"]
\* every place of the node that holds a child, one after the other
AllSlots(f) ==
    f.base_contracts
        \o (IF f.documentation > 0 THEN <<f.documentation>> ELSE <<>>)
        \o f.enums \o f.errors \o f.events \o f.functions \o f.modifiers
        \o f.structs \o f.user_defined_value_types \o f.using_for_directives
        \o f.declared_variables
        \o (IF f.expression > 0 THEN <<f.expression>> ELSE <<>>) \o f.cases
\* the raw members of the kind that list `kind` is built from, in raw order
RawOfKind(kind) == SelectSeq(raw.nodes, LAMBDA node : IrKindOf(node) = kind)
\* the members the constructor built, in the order it built them
BuiltMembers ==
    SelectSeq(Ascending(ChildrenOf(irNodes, Root)),
              LAMBDA n : irNodes[n].kind \in
                  DOMAIN ListOfKind \ {"InheritanceSpecifier", "Case"})
Increasing(list) == \A i, j \in DOMAIN list : i < j => list[i] < list[j]
Built == pc \in {"constructed", "iterated", "listed"}

OwnedInOrder ==
    Built =>
        /\ NoDup(AllSlots(fields))
        /\ Range(AllSlots(fields)) = ChildrenOf(irNodes, Root)
        /\ \A kind \in DOMAIN ListOfKind :
              LET list == fields[ListOfKind[kind]]
              IN /\ \A k \in DOMAIN list : irNodes[list[k]].kind = kind
                 /\ Increasing(list)
        /\ raw.type = "SolcContractDefinition" =>
              /\ Len(fields.base_contracts) = raw.base_contracts
              /\ \A kind \in DOMAIN ListOfKind \ {"InheritanceSpecifier", "Case"} :
                    Len(fields[ListOfKind[kind]]) = Len(RawOfKind(kind))
              /\ [k \in DOMAIN BuiltMembers |-> irNodes[BuiltMembers[k]].kind]
                    = SelectSeq([k \in DOMAIN raw.nodes |-> IrKindOf(raw.nodes[k])],
                                LAMBDA kind : kind # Unknown)
        /\ raw.type = "YulSwitch" =>
              /\ Len(fields.cases) = raw.cases
              /\ fields.expression > 0
              /\ \A k \in DOMAIN fields.cases : fields.expression < fields.cases[k]
ListsFrozen == Built => (fields' = fields /\ irNodes' = irNodes)

\* C19: every child a ContractDefinition or a Switch constructs has that
\* node as parent and sits in exactly one of its child lists, once; each
\* per-kind list of a contract and the case list of a switch hold their
\* elements in the order of the raw AST; the lists do not change once
\* construction has returned.
C19_OwnershipAndOrder == []OwnedInOrder /\ [][ListsFrozen]_vars

\* two enums around a struct, under a base and a documentation, listed
C19_Witness ==
    /\ pc = "listed"
    /\ raw.base_contracts = 1
    /\ raw.documentation = "SolcStructuredDocumentation"
    /\ raw.nodes = <<"SolcEnumDefinition", "SolcStructDefinition",
                     "SolcEnumDefinition">>
    /\ Len(fields.enums) = 2 /\ fields.enums[1] < fields.structs[1]
    /\ fields.structs[1] < fields.enums[2]

====
